---- MODULE Spec2Model ----
(***************************************************************************)
(* tinymbc: a minimal Modbus TCP command line client (src/tinymbc.py).     *)
(*                                                                         *)
(* The model follows one run of the script (operation "read" or "write")   *)
(* and, with operation "import", a caller that imports the module and      *)
(* calls the methods of one ModbusClient in any order.  Texts are          *)
(* sequences of one-character strings, frames are sequences of bytes.      *)
(***************************************************************************)
EXTENDS Integers, Sequences, FiniteSets, TLC

VARIABLES
    operation,       \* args.operation, or "import" for a caller of the class
    verbose,         \* args.verbose
    regGroups,       \* the register groups not yet processed (regGroups, l.378)
    pc,              \* "start", "loop", "sent", "done"
    sock,            \* "none", "created", "connected", "closed"
    transaction_id,  \* ModbusClient.transaction_id
    call,            \* the method call in progress: [fn, address, length, verbose]
    request,         \* the last frame handed to sock.send
    rcv_buffer,      \* the receive buffer of the call in progress
    results,         \* what the last method call returned
    result_set,      \* result_set of the read operation
    diag,            \* the last diagnostic read_holding_regs printed
    exit_msg,        \* how the run ended
    outstanding,     \* frames sent whose receive has not completed
    conv             \* the calls of the module's functions made by a caller that
                     \* imports it, each with its argument and its outcome

\* the state of a run of the script or of a client session
run_vars == <<operation, verbose, regGroups, pc, sock, transaction_id, call, request,
              rcv_buffer, results, result_set, diag, exit_msg, outstanding>>

vars == <<operation, verbose, regGroups, pc, sock, transaction_id, call, request,
          rcv_buffer, results, result_set, diag, exit_msg, outstanding, conv>>

----------------------------------------------------------------------------
(* Bounds of the model *)

\* the longest list of register groups of one run
MaxGroups == 2

\* the most calls in a row that a caller of the class sees raise before a frame
\* is sent
MaxFailedCalls == 1

----------------------------------------------------------------------------
(* Texts: sequences of characters *)

HexLower  == <<"0", "1", "2", "3", "4", "5", "6", "7", "8", "9",
               "a", "b", "c", "d", "e", "f">>
HexUpper  == <<"0", "1", "2", "3", "4", "5", "6", "7", "8", "9",
               "A", "B", "C", "D", "E", "F">>

\* the value of character c as a digit of the base, or -1
DigitVal(c, base) ==
    IF \E i \in 1..base : HexLower[i] = c \/ HexUpper[i] = c
    THEN (CHOOSE i \in 1..base : HexLower[i] = c \/ HexUpper[i] = c) - 1
    ELSE -1

\* the slice s[:n]
Take(s, n) == SubSeq(s, 1, IF n < Len(s) THEN n ELSE Len(s))

\* F applied to the value of e, with e evaluated once
Bind(e, F(_)) == CHOOSE r \in {F(x) : x \in {e}} : TRUE

\* str.split(sep) for a one-character separator: the pieces between the
\* separators, one more than there are separators
Split(s, sep) ==
    Bind(SelectSeq([i \in 1..Len(s) |-> i], LAMBDA i : s[i] = sep), LAMBDA at :
        [k \in 1..(Len(at) + 1) |->
            SubSeq(s, IF k = 1 THEN 1 ELSE at[k - 1] + 1,
                      IF k = Len(at) + 1 THEN Len(s) ELSE at[k] - 1)])

\* str.strip() of blanks
RECURSIVE Strip(_)
Strip(s) ==
    IF s = <<>> THEN s
    ELSE IF Head(s) = " " THEN Strip(Tail(s))
    ELSE IF s[Len(s)] = " " THEN Strip(SubSeq(s, 1, Len(s) - 1))
    ELSE s

\* the digits of an integer text: digits of the base, single underscores
\* between digits only; the result is the value, or -1 for a malformed text
RECURSIVE DigitsValue(_, _, _, _)
DigitsValue(s, base, acc, prevDigit) ==
    IF s = <<>> THEN (IF prevDigit THEN acc ELSE -1)
    ELSE IF Head(s) = "_"
         THEN (IF prevDigit THEN DigitsValue(Tail(s), base, acc, FALSE) ELSE -1)
    ELSE IF DigitVal(Head(s), base) < 0 THEN -1
    ELSE DigitsValue(Tail(s), base, acc * base + DigitVal(Head(s), base), TRUE)

\* A result is [ok, val]; ok = FALSE is ValueError
Raised == [ok |-> FALSE, val |-> 0]
Returned(v) == [ok |-> TRUE, val |-> v]

\* int(text, base) for base 10 and 16: blanks around the number are dropped,
\* a sign may lead, base 16 takes a "0x" prefix and one underscore after it
PyInt(text, base) ==
    Bind(Strip(text), LAMBDA s :
    Bind(s # <<>> /\ Head(s) \in {"+", "-"}, LAMBDA signed :
    Bind(IF signed THEN Tail(s) ELSE s, LAMBDA body :
    Bind(base = 16 /\ Len(body) >= 2 /\ body[1] = "0" /\ body[2] \in {"x", "X"}, LAMBDA pref :
    Bind(IF pref THEN SubSeq(body, 3, Len(body)) ELSE body, LAMBDA rest :
    Bind(DigitsValue(IF pref /\ rest # <<>> /\ Head(rest) = "_" THEN Tail(rest) ELSE rest,
                     base, 0, FALSE), LAMBDA v :
        IF v < 0 THEN Raised
        ELSE Returned(IF signed /\ Head(s) = "-" THEN 0 - v ELSE v)))))))

----------------------------------------------------------------------------
(* Program constants *)

\* the default of --unitid
unitid == 1
\* FUNCTION_CODE and MSG_LENGTH of the three request methods
FC_READ_HOLDING == 3
FC_WRITE_SINGLE == 6
FC_WRITE_MULTI  == 16
MSG_LENGTH      == 6
\* the offset that marks an exception response
EXCEPTION_OFFSET == 128
\* the header length added to the read buffer, and the write buffers' size
RCV_HEADER   == 9
WRITE_BUFFER == 20
\* the most registers one read group may ask for
MAX_READ_LENGTH == 125

\* a table that would lack the two gateway codes
exception_code_to_string_without_gateway(exception_code) ==
    CASE exception_code = 1  -> "Illegal Function Code"
      [] exception_code = 2  -> "Illegal Data Address"
      [] exception_code = 3  -> "Illegal Data Value"
      [] exception_code = 4  -> "Server Failure"
      [] exception_code = 5  -> "Acknowledge"
      [] exception_code = 6  -> "Server Busy"
      [] OTHER               -> "Unknown exception code"

\* MODBUS_EXCEPTION_CODES.get(code, "Unknown exception code")
modbus_exception_code_to_string(exception_code) ==
    CASE exception_code = 1  -> "Illegal Function Code"
      [] exception_code = 2  -> "Illegal Data Address"
      [] exception_code = 3  -> "Illegal Data Value"
      [] exception_code = 4  -> "Server Failure"
      [] exception_code = 5  -> "Acknowledge"
      [] exception_code = 6  -> "Server Busy"
      [] exception_code = 10 -> "Gateway Problem (0x0A)"
      [] exception_code = 11 -> "Gateway Problem (0x0B)"
      [] OTHER               -> "Unknown exception code"

----------------------------------------------------------------------------
(* Conversion functions *)

\* A Python number: an int, or a float that is a multiple of one half; twice
\* is two times its value
IntNum(i)   == [isint |-> TRUE,  twice |-> 2 * i]
FloatNum(t) == [isint |-> FALSE, twice |-> t]

\* n + k for an int k: the sum of a float and an int is a float
NumPlus(n, k) == [n EXCEPT !.twice = @ + 2 * k]

\* n < k and n > k for an int k
NumLess(n, k)    == n.twice < 2 * k
NumGreater(n, k) == n.twice > 2 * k

\* a conversion that would take 32768 for a positive number still
uint16_to_int16_late(ui) ==
    IF NumLess(ui, 0) \/ ~NumLess(ui, 65536) \/ ~ui.isint THEN Raised
    ELSE IF NumGreater(ui, 32768) THEN Returned(NumPlus(ui, 0 - 65536))
    ELSE Returned(ui)

uint16_to_int16(ui) ==
    IF NumLess(ui, 0) \/ ~NumLess(ui, 65536) \/ ~ui.isint THEN Raised
    ELSE IF NumGreater(ui, 32767) THEN Returned(NumPlus(ui, 0 - 65536))
    ELSE Returned(ui)

\* a conversion that would add 65535 to a negative number
int16_to_uint16_short(i) ==
    IF NumLess(i, 0 - 32768) \/ NumGreater(i, 32767) THEN Raised
    ELSE IF NumLess(i, 0) THEN Returned(NumPlus(i, 65535))
    ELSE Returned(i)

int16_to_uint16(i) ==
    IF NumLess(i, 0 - 32768) \/ NumGreater(i, 32767) THEN Raised
    ELSE IF NumLess(i, 0) THEN Returned(NumPlus(i, 65536))
    ELSE Returned(i)

\* a conversion that would take any number for an address
string_to_valid_address_unbounded(addr_str) ==
    Bind(PyInt(addr_str, 10), LAMBDA addr :
        IF ~addr.ok THEN Raised ELSE Returned(addr.val))

string_to_valid_address(addr_str) ==
    Bind(PyInt(addr_str, 10), LAMBDA addr :
        IF ~addr.ok THEN Raised
        ELSE IF addr.val > 65535 \/ addr.val < 0 THEN Raised
        ELSE Returned(addr.val))

\* l.97-101: a negative value goes through uint16_to_int16, then the bounds
ValidValue(val) ==
    Bind(IF val < 0 THEN uint16_to_int16(IntNum(val)) ELSE Returned(IntNum(val)),
         LAMBDA converted :
        IF ~converted.ok THEN Raised
        ELSE IF NumLess(converted.val, 0) \/ NumGreater(converted.val, 65535) THEN Raised
        ELSE Returned(converted.val.twice \div 2))

string_to_valid_value(val_str) ==
    Bind(PyInt(val_str, IF Take(val_str, 2) = <<"0", "x">> THEN 16 ELSE 10), LAMBDA parsed :
        IF ~parsed.ok THEN Raised ELSE ValidValue(parsed.val))

----------------------------------------------------------------------------
(* The register group parsers inside perform_readout and perform_write.    *)
(* kind "ok": a request follows; "skip": the group is skipped (continue);   *)
(* "error": ValueError leaves the worker function.                         *)

ReadGroup(kind, start, length) == [kind |-> kind, start |-> start, length |-> length]

\* a parser that would keep the first address of a range as its start
ReadRangeUnordered(start, end) ==
    Bind(IF end >= start THEN end - start + 1 ELSE start - end + 1, LAMBDA length :
        IF length > MAX_READ_LENGTH THEN ReadGroup("error", 0, 1)
        ELSE ReadGroup("ok", start, length))

\* l.124-134: the length of a range, its start, and the limit of 125
ReadRange(start, end) ==
    Bind(IF end = start THEN <<start, 1>>
         ELSE IF end > start THEN <<start, end - start + 1>>
         ELSE <<end, start - end + 1>>, LAMBDA r :
        IF r[2] > MAX_READ_LENGTH THEN ReadGroup("error", 0, 1)
        ELSE ReadGroup("ok", r[1], r[2]))

ParseReadGroup(reg_group) ==
    Bind(Split(reg_group, "-") \o <<>>, LAMBDA reg_strings :
        IF Len(reg_strings) = 1 THEN
            Bind(string_to_valid_address(reg_strings[1]), LAMBDA a :
                IF a.ok THEN ReadGroup("ok", a.val, 1) ELSE ReadGroup("error", 0, 1))
        ELSE IF Len(reg_strings) = 2 THEN
            Bind(string_to_valid_address(reg_strings[1]), LAMBDA a :
            Bind(string_to_valid_address(reg_strings[2]), LAMBDA b :
                IF ~a.ok \/ ~b.ok THEN ReadGroup("error", 0, 1)
                ELSE ReadRange(a.val, b.val)))
        ELSE ReadGroup("skip", 0, 1))

WriteGroup(kind, addr, vals) == [kind |-> kind, addr |-> addr, vals |-> vals]

ParseWriteValues(addr, reg_vals) ==
    Bind([i \in 1..Len(reg_vals) |-> string_to_valid_value(reg_vals[i])] \o <<>>,
         LAMBDA parsed :
            IF ~addr.ok THEN WriteGroup("error", 0, <<>>)
            ELSE IF \E i \in 1..Len(parsed) : ~parsed[i].ok
                 THEN WriteGroup("error", 0, <<>>)
            ELSE WriteGroup("ok", addr.val, [i \in 1..Len(parsed) |-> parsed[i].val] \o <<>>))

ParseWriteGroup(reg_group) ==
    Bind(Split(reg_group, "=") \o <<>>, LAMBDA reg_strings :
        IF Len(reg_strings) = 2
        THEN Bind(string_to_valid_address(reg_strings[1]), LAMBDA addr :
                ParseWriteValues(addr, Split(reg_strings[2], ";") \o <<>>))
        ELSE WriteGroup("skip", 0, <<>>))

----------------------------------------------------------------------------
(* Bytes and frames *)

\* x >> 8 and x & 0x00FF of a non-negative x
HiByte(x) == x \div 256
LoByte(x) == x % 256

\* pack('>H', v)
PackH(v) == <<HiByte(v), LoByte(v)>>

\* the payload of write_multi_regs: the values packed one after the other
PackValues(values) ==
    [k \in 1..(2 * Len(values)) |->
        IF k % 2 = 1 THEN HiByte(values[(k + 1) \div 2])
                     ELSE LoByte(values[(k + 1) \div 2])]

\* array('B', bytes): OverflowError unless every item is a byte
ArrayFits(bytes) == \A k \in 1..Len(bytes) : bytes[k] \in 0..255

\* array('B', [0] * n)
Zeros(n) == [k \in 1..n |-> 0]

\* unpack('>' + 'H' * length, buffer[9:(9 + 2 * length)])
UnpackWords(buffer, length) ==
    [i \in 1..length |-> buffer[RCV_HEADER + 2 * i - 1] * 256 + buffer[RCV_HEADER + 2 * i]]

\* sock.recv_into(buffer): the data received overwrites the start of the buffer
RecvInto(buffer, data) ==
    [k \in 1..Len(buffer) |-> IF k <= Len(data) THEN data[k] ELSE buffer[k]]

\* the transaction id of the next request (l.238-240, 285-287, 319-321)
NextTransactionId(tid) == IF tid < 255 THEN tid + 1 ELSE 1

\* the request of read_holding_regs (l.243-245)
ReadHoldingRegsFrame(tid, start_address, length) ==
    <<0, tid, 0, 0, 0, MSG_LENGTH,
      unitid, FC_READ_HOLDING,
      HiByte(start_address), LoByte(start_address), HiByte(length), LoByte(length)>>

\* the request of write_single_reg (l.290-292)
WriteSingleRegFrame(tid, address, value) ==
    <<0, tid, 0, 0, 0, MSG_LENGTH,
      unitid, FC_WRITE_SINGLE, HiByte(address), LoByte(address)>> \o PackH(value)

\* a header whose length field would leave out the byte count's own byte
WriteMultiRegsHeaderShort(tid, address, values) ==
    LET payload    == PackValues(values)
        nr_of_regs == Len(payload) \div 2
        pl_length  == Len(payload)
        msg_length == 6 + pl_length
    IN  <<0, tid, 0, 0, 0, msg_length,
          unitid, FC_WRITE_MULTI, HiByte(address), LoByte(address),
          HiByte(nr_of_regs), LoByte(nr_of_regs), pl_length>>

\* the header of write_multi_regs' request (l.313-325), an array('B') of its own
WriteMultiRegsHeader(tid, address, values) ==
    LET payload    == PackValues(values)
        nr_of_regs == Len(payload) \div 2
        pl_length  == Len(payload)
        msg_length == 7 + pl_length
    IN  <<0, tid, 0, 0, 0, msg_length,
          unitid, FC_WRITE_MULTI, HiByte(address), LoByte(address),
          HiByte(nr_of_regs), LoByte(nr_of_regs), pl_length>>

\* the request of write_multi_regs (l.324-326)
WriteMultiRegsFrame(tid, address, values) ==
    WriteMultiRegsHeader(tid, address, values) \o PackValues(values)

\* diagnostics that would test the function code before the exception offset
ReadDiagFunctionCodeFirst(buffer, tid, length, verbose_) ==
    IF ~verbose_ THEN <<>>
    ELSE IF buffer[8] # FC_READ_HOLDING
         THEN <<"Error: Response refers to unexpected function code!">>
    ELSE IF buffer[9] # length * 2
         THEN <<"Error: Response contains unexpected number of bytes!">>
    ELSE IF buffer[2] = tid THEN <<"Response looks fine!">>
    ELSE <<>>

\* what read_holding_regs prints for a response (l.257-265, 272-273)
ReadDiag(buffer, tid, length, verbose_) ==
    LET returned_transaction_id == buffer[2]
        returned_function_ode   == buffer[8]
        nr_of_bytes_transmitted == buffer[9]
        bytes_expected          == length * 2
        fine == ~(returned_transaction_id # tid
                  \/ returned_function_ode # FC_READ_HOLDING
                  \/ nr_of_bytes_transmitted # bytes_expected)
    IN  IF ~verbose_ THEN <<>>
        ELSE IF returned_function_ode = EXCEPTION_OFFSET + FC_READ_HOLDING
             THEN <<"Error: Modbus exception occured:",
                    modbus_exception_code_to_string(buffer[9])>>
        ELSE IF returned_function_ode # FC_READ_HOLDING
             THEN <<"Error: Response refers to unexpected function code!">>
        ELSE IF nr_of_bytes_transmitted # bytes_expected
             THEN <<"Error: Response contains unexpected number of bytes!">>
        ELSE IF fine THEN <<"Response looks fine!">>
        ELSE <<>>

\* what read_holding_regs returns for a response (l.254-256, 267-274)
ReadHoldingRegsReturn(buffer, tid, length) ==
    LET returned_transaction_id == buffer[2]
        returned_function_ode   == buffer[8]
        nr_of_bytes_transmitted == buffer[9]
        bytes_expected          == length * 2
    IN  IF returned_transaction_id # tid
           \/ returned_function_ode # FC_READ_HOLDING
           \/ nr_of_bytes_transmitted # bytes_expected
        THEN <<>>
        ELSE UnpackWords(buffer, length)

----------------------------------------------------------------------------
(* The inputs of a run and the server *)

\* register groups of a read: ranges in both orders, a single address, the
\* longest range allowed and the first too long, a range that ends at the
\* last address, an address out of bounds, a token of another shape and one
\* that is no number
ReadTokens ==
    {
     <<"0", "-", "2">>,                            \* 0-2
     <<"5", "-", "5">>,                            \* 5-5
     <<"1", "0", "-", "3">>,                       \* 10-3
     <<"7">>,                                      \* 7
     <<"1", "-", "1", "2", "5">>,                  \* 1-125
     <<"1", "-", "1", "2", "6">>,                  \* 1-126
     <<"6", "5", "5", "3", "5", "-", "6", "5", "5", "3", "0">>,   \* 65535-65530
     <<"7", "0", "0", "0", "0">>,                  \* 70000
     <<"1", "-", "2", "-", "3">>,                  \* 1-2-3
     <<"x">>                                       \* x
    }

\* n values "7" separated by ";"
SevenList(n) == [k \in 1..(2 * n - 1) |-> IF k % 2 = 1 THEN "7" ELSE ";"]

\* register groups of a write: one value in base 10 and 16, two values, a
\* negative value, an address out of bounds, a token of another shape, and
\* the most values a frame can carry and one more
WriteTokens ==
    {
     <<"1", "7", "=", "4", "2">>,                  \* 17=42
     <<"1", "7", "=", "0", "x", "2", "A">>,        \* 17=0x2A
     <<"3", "=", "1", ";", "2">>,                  \* 3=1;2
     <<"1", "7", "=", "-", "1">>,                  \* 17=-1
     <<"7", "0", "0", "0", "0", "=", "1">>,        \* 70000=1
     <<"1", "7">>,                                 \* 17
     <<"0", "=">> \o SevenList(124),
     <<"0", "=">> \o SevenList(125)
    }

\* the lists of one to MaxGroups tokens
GroupLists(tokens) ==
    UNION {[1..n -> tokens] : n \in 1..MaxGroups}

\* the arguments of the calls a caller of the class makes
ImportReads  == {[start |-> 0, length |-> 3], [start |-> 65535, length |-> 1]}
ImportSingle == {[address |-> 17, value |-> 42]}
ImportMulti  == {[address |-> 3, values |-> <<1, 65535>>],
                 [address |-> 0, values |-> [k \in 1..MAX_READ_LENGTH |-> 7]]}

\* two register banks of the server: the value of the register at an address
RegisterValue(bank, address) ==
    IF bank = 1 THEN <<0, 1234, 65535>>[(address % 3) + 1]
    ELSE (address * 257 + 1) % 65536

\* a transaction id other than tid
OtherId(tid) == IF tid = 1 THEN 2 ELSE tid - 1

\* the responses the server may give to a read of length registers: every
\* combination of transaction id bytes, function code and ninth byte (byte
\* count or exception code), followed by a bank's registers or, for an
\* exception response, by nothing
ReadResponses(tid, start_address, length) ==
    LET header(th, tl, fc, b9) ==
            <<th, tl, 0, 0, HiByte(3 + 2 * length), LoByte(3 + 2 * length), unitid, fc, b9>>
        payload(bank) ==
            [k \in 1..(2 * length) |->
                LET w == RegisterValue(bank, start_address + (k - 1) \div 2)
                IN  IF k % 2 = 1 THEN HiByte(w) ELSE LoByte(w)]
    IN  {header(th, tl, fc, b9) \o payload(bank) :
            th \in {0, 1}, tl \in {tid, OtherId(tid)},
            fc \in {FC_READ_HOLDING, 4}, b9 \in {2 * length, 2, 7}, bank \in {1, 2}}
        \cup
        {header(th, tl, EXCEPTION_OFFSET + FC_READ_HOLDING, b9) :
            th \in {0, 1}, tl \in {tid, OtherId(tid)}, b9 \in {2 * length, 2, 7}}

\* the responses the server may give to a write: the echo of the request's
\* first twelve bytes, the echo under another transaction id, an exception
WriteResponses(req) ==
    LET echo(tl) == <<0, tl, 0, 0, 0, 6>> \o SubSeq(req, 7, 12)
    IN  {echo(req[2]), echo(OtherId(req[2])),
         <<0, req[2], 0, 0, 0, 3, req[7], req[8] + EXCEPTION_OFFSET, 2>>}

----------------------------------------------------------------------------
(* The state machine *)

NoCall == [fn |-> "", address |-> 0, length |-> 0, values |-> <<>>, verbose |-> FALSE]

\* the first sentence of each message a run may end with
MsgRefused  == "Could not connect to server! Please check connection details."
MsgInvalid  == "Invalid input! Probably invalid register definition."
MsgTimeout  == "Did not receive reply in due time! Maybe wrong unit ID?"
MsgNoResult == "Did not receive any results! Did you try to read non-supported registers?"
MsgWrite    == "Something went wrong while writing."
MsgOverflow == "OverflowError: unsigned byte integer is greater than maximum"
MsgDone     == "done"

Init ==
    /\ operation \in {"read", "write", "import"}
    /\ verbose \in BOOLEAN
    /\ regGroups \in (CASE operation = "read"  -> GroupLists(ReadTokens)
                        [] operation = "write" -> GroupLists(WriteTokens)
                        [] OTHER               -> {<<>>})
    /\ operation = "import" => verbose = FALSE
    /\ pc = "start"
    /\ sock = "none"
    /\ transaction_id = 0
    /\ call = NoCall
    /\ request = <<>>
    /\ rcv_buffer = <<>>
    /\ results = <<>>
    /\ result_set = <<>>
    /\ diag = <<>>
    /\ exit_msg = ""
    /\ outstanding = 0
    /\ conv = <<>>

\* ModbusClient.__init__ returns: the socket is connected
Connect ==
    /\ UNCHANGED conv
    /\ pc = "start"
    /\ sock' = "connected"
    /\ transaction_id' = 0
    /\ pc' = "loop"
    /\ UNCHANGED <<operation, verbose, regGroups, call, request, rcv_buffer,
                   results, result_set, diag, exit_msg, outstanding>>

\* sock.connect raises ConnectionRefusedError: the socket exists, unconnected
ConnectRefused ==
    /\ UNCHANGED conv
    /\ pc = "start"
    /\ sock' = "created"
    /\ transaction_id' = 0
    /\ pc' = "done"
    /\ exit_msg' = MsgRefused
    /\ UNCHANGED <<operation, verbose, regGroups, call, request, rcv_buffer,
                   results, result_set, diag, outstanding>>

\* a method may start: the caller is between two method calls.  Each method
\* sends and then blocks in recv_into until it returns or raises.
PipelinedIdle == pc \in {"loop", "sent"}

Idle == pc = "loop"

\* a method's way to its blocking receive: the next transaction id, the
\* frame sent, the zeroed receive buffer; nothing is returned or printed yet
Send(c, frame, buffer_size) ==
    /\ transaction_id' = NextTransactionId(transaction_id)
    /\ call' = c
    /\ request' = frame
    /\ rcv_buffer' = Zeros(buffer_size)
    /\ results' = <<>>
    /\ diag' = <<>>
    /\ outstanding' = outstanding + 1
    /\ pc' = "sent"

\* the run ends with a message
Exit(msg) ==
    /\ pc' = "done"
    /\ exit_msg' = msg

(* perform_readout under the read branch of the script *)

ReadSkip ==
    /\ UNCHANGED conv
    /\ operation = "read" /\ Idle /\ regGroups # <<>>
    /\ ParseReadGroup(Head(regGroups)).kind = "skip"
    /\ regGroups' = Tail(regGroups)
    /\ UNCHANGED <<operation, verbose, pc, sock, transaction_id, call, request,
                   rcv_buffer, results, result_set, diag, exit_msg, outstanding>>

ReadInvalid ==
    /\ UNCHANGED conv
    /\ operation = "read" /\ Idle /\ regGroups # <<>>
    /\ ParseReadGroup(Head(regGroups)).kind = "error"
    /\ Exit(MsgInvalid)
    /\ UNCHANGED <<operation, verbose, regGroups, sock, transaction_id, call, request,
                   rcv_buffer, results, result_set, diag, outstanding>>

ReadSend ==
    /\ UNCHANGED conv
    /\ operation = "read" /\ Idle /\ regGroups # <<>>
    /\ \E g \in {ParseReadGroup(Head(regGroups))} :
           /\ g.kind = "ok"
           /\ Send([fn |-> "read_holding_regs", address |-> g.start, length |-> g.length,
                    values |-> <<>>, verbose |-> verbose],
                   ReadHoldingRegsFrame(NextTransactionId(transaction_id), g.start, g.length),
                   g.length * 2 + RCV_HEADER)
    /\ UNCHANGED <<operation, verbose, regGroups, sock, result_set, exit_msg>>

\* a readout that would take whatever the client returned
ReadoutNeverFails(res, length) == FALSE

\* whether perform_readout raises UserWarning for what the client returned
ReadoutFails(res, length) == Len(res) # length

ReadReceive ==
    /\ UNCHANGED conv
    /\ operation = "read" /\ pc = "sent"
    /\ \E resp \in ReadResponses(transaction_id, call.address, call.length) :
       \E buffer \in {RecvInto(rcv_buffer, resp) \o <<>>} :
       \E res \in {ReadHoldingRegsReturn(buffer, transaction_id, call.length) \o <<>>} :
            /\ rcv_buffer' = buffer
            /\ results' = res
            /\ diag' = ReadDiag(buffer, transaction_id, call.length, call.verbose)
            /\ outstanding' = outstanding - 1
            /\ IF ReadoutFails(res, call.length)
               THEN /\ Exit(MsgNoResult)
                    /\ UNCHANGED <<regGroups, result_set>>
               ELSE /\ result_set' = Append(result_set,
                            [start |-> call.address, length |-> call.length, results |-> res])
                    /\ regGroups' = Tail(regGroups)
                    /\ pc' = "loop"
                    /\ UNCHANGED exit_msg
    /\ UNCHANGED <<operation, verbose, sock, transaction_id, call, request>>

\* a read operation that would skip a group whose reply did not come
ReadTimeoutSkipsGroup ==
    /\ UNCHANGED conv
    /\ operation = "read" /\ pc = "sent"
    /\ outstanding' = outstanding - 1
    /\ regGroups' = Tail(regGroups)
    /\ pc' = "loop"
    /\ UNCHANGED <<operation, verbose, sock, transaction_id, call, request,
                   rcv_buffer, results, result_set, diag, exit_msg>>

ReadTimeout ==
    /\ UNCHANGED conv
    /\ operation = "read" /\ pc = "sent"
    /\ outstanding' = outstanding - 1
    /\ Exit(MsgTimeout)
    /\ UNCHANGED <<operation, verbose, regGroups, sock, transaction_id, call, request,
                   rcv_buffer, results, result_set, diag>>

ReadFinish ==
    /\ UNCHANGED conv
    /\ operation = "read" /\ Idle /\ regGroups = <<>>
    /\ Exit(MsgDone)
    /\ UNCHANGED <<operation, verbose, regGroups, sock, transaction_id, call, request,
                   rcv_buffer, results, result_set, diag, outstanding>>

(* perform_write under the write branch of the script *)

WriteSkip ==
    /\ UNCHANGED conv
    /\ operation = "write" /\ Idle /\ regGroups # <<>>
    /\ ParseWriteGroup(Head(regGroups)).kind = "skip"
    /\ regGroups' = Tail(regGroups)
    /\ UNCHANGED <<operation, verbose, pc, sock, transaction_id, call, request,
                   rcv_buffer, results, result_set, diag, exit_msg, outstanding>>

\* ValueError leaves perform_write and is caught around it (l.423-425)
WriteInvalid ==
    /\ UNCHANGED conv
    /\ operation = "write" /\ Idle /\ regGroups # <<>>
    /\ ParseWriteGroup(Head(regGroups)).kind = "error"
    /\ Exit(MsgWrite)
    /\ UNCHANGED <<operation, verbose, regGroups, sock, transaction_id, call, request,
                   rcv_buffer, results, result_set, diag, outstanding>>

\* the call a parsed write group leads to (l.164-167)
WriteCall(g) ==
    IF Len(g.vals) = 1
    THEN [fn |-> "write_single_reg", address |-> g.addr, length |-> 1,
          values |-> g.vals, verbose |-> FALSE]
    ELSE [fn |-> "write_multi_regs", address |-> g.addr, length |-> Len(g.vals),
          values |-> g.vals, verbose |-> FALSE]

\* the frame of a write call under transaction id tid
WriteFrame(c, tid) ==
    IF c.fn = "write_single_reg"
    THEN WriteSingleRegFrame(tid, c.address, c.values[1])
    ELSE WriteMultiRegsFrame(tid, c.address, c.values)

\* whether array('B', ...) takes the frame's header (l.290-291, 324-325)
WriteFrameFits(c, tid) ==
    IF c.fn = "write_single_reg"
    THEN ArrayFits(WriteSingleRegFrame(tid, c.address, c.values[1]))
    ELSE ArrayFits(WriteMultiRegsHeader(tid, c.address, c.values))

WriteSend ==
    /\ UNCHANGED conv
    /\ operation = "write" /\ Idle /\ regGroups # <<>>
    /\ \E g \in {ParseWriteGroup(Head(regGroups))} :
        /\ g.kind = "ok"
        /\ \E c \in {WriteCall(g)} :
            /\ WriteFrameFits(c, NextTransactionId(transaction_id))
            /\ Send(c, WriteFrame(c, NextTransactionId(transaction_id)), WRITE_BUFFER)
    /\ UNCHANGED <<operation, verbose, regGroups, sock, result_set, exit_msg>>

\* array('B', ...) raises OverflowError after the transaction id was advanced
\* and before anything is sent; nothing catches it
WriteOverflow ==
    /\ UNCHANGED conv
    /\ operation = "write" /\ Idle /\ regGroups # <<>>
    /\ \E g \in {ParseWriteGroup(Head(regGroups))} :
        /\ g.kind = "ok"
        /\ \E c \in {WriteCall(g)} :
            /\ ~WriteFrameFits(c, NextTransactionId(transaction_id))
            /\ call' = c
    /\ transaction_id' = NextTransactionId(transaction_id)
    /\ Exit(MsgOverflow)
    /\ UNCHANGED <<operation, verbose, regGroups, sock, request, rcv_buffer,
                   results, result_set, diag, outstanding>>

\* the write methods return the buffer as it is (l.295-299, 329-333)
WriteReceive ==
    /\ UNCHANGED conv
    /\ operation = "write" /\ pc = "sent"
    /\ \E resp \in WriteResponses(request) :
       \E buffer \in {RecvInto(rcv_buffer, resp) \o <<>>} :
            /\ rcv_buffer' = buffer
            /\ results' = buffer
    /\ outstanding' = outstanding - 1
    /\ regGroups' = Tail(regGroups)
    /\ pc' = "loop"
    /\ UNCHANGED <<operation, verbose, sock, transaction_id, call, request,
                   result_set, diag, exit_msg>>

WriteTimeout ==
    /\ UNCHANGED conv
    /\ operation = "write" /\ pc = "sent"
    /\ outstanding' = outstanding - 1
    /\ Exit(MsgTimeout)
    /\ UNCHANGED <<operation, verbose, regGroups, sock, transaction_id, call, request,
                   rcv_buffer, results, result_set, diag>>

WriteFinish ==
    /\ UNCHANGED conv
    /\ operation = "write" /\ Idle /\ regGroups = <<>>
    /\ Exit(MsgDone)
    /\ UNCHANGED <<operation, verbose, regGroups, sock, transaction_id, call, request,
                   rcv_buffer, results, result_set, diag, outstanding>>

(* A caller of the class: any method, any number of times *)

\* the calls that advanced the transaction id since the last frame was sent
FailedCalls ==
    (transaction_id - (IF request = <<>> THEN 0 ELSE request[2])) % 255

ImportRead ==
    /\ UNCHANGED conv
    /\ operation = "import" /\ Idle
    /\ \E a \in ImportReads, v \in BOOLEAN :
        Send([fn |-> "read_holding_regs", address |-> a.start, length |-> a.length,
              values |-> <<>>, verbose |-> v],
             ReadHoldingRegsFrame(NextTransactionId(transaction_id), a.start, a.length),
             a.length * 2 + RCV_HEADER)
    /\ UNCHANGED <<operation, verbose, regGroups, sock, result_set, exit_msg>>

ImportWriteSingle ==
    /\ UNCHANGED conv
    /\ operation = "import" /\ Idle
    /\ \E a \in ImportSingle :
       \E c \in {[fn |-> "write_single_reg", address |-> a.address, length |-> 1,
                  values |-> <<a.value>>, verbose |-> FALSE]} :
            Send(c, WriteFrame(c, NextTransactionId(transaction_id)), WRITE_BUFFER)
    /\ UNCHANGED <<operation, verbose, regGroups, sock, result_set, exit_msg>>

ImportWriteMulti ==
    /\ UNCHANGED conv
    /\ operation = "import" /\ Idle
    /\ \E a \in ImportMulti :
       \E c \in {[fn |-> "write_multi_regs", address |-> a.address, length |-> Len(a.values),
                  values |-> a.values, verbose |-> FALSE]} :
            /\ WriteFrameFits(c, NextTransactionId(transaction_id))
            /\ Send(c, WriteFrame(c, NextTransactionId(transaction_id)), WRITE_BUFFER)
    /\ UNCHANGED <<operation, verbose, regGroups, sock, result_set, exit_msg>>

\* OverflowError reaches the caller after the transaction id was advanced
\* (l.319-325); the caller may go on with the client
ImportOverflow ==
    /\ UNCHANGED conv
    /\ operation = "import" /\ Idle
    /\ FailedCalls < MaxFailedCalls
    /\ \E a \in ImportMulti :
       \E c \in {[fn |-> "write_multi_regs", address |-> a.address, length |-> Len(a.values),
                  values |-> a.values, verbose |-> FALSE]} :
            /\ ~WriteFrameFits(c, NextTransactionId(transaction_id))
            /\ call' = c
    /\ transaction_id' = NextTransactionId(transaction_id)
    /\ results' = <<>>
    /\ diag' = <<>>
    /\ UNCHANGED <<operation, verbose, regGroups, pc, sock, request, rcv_buffer,
                   result_set, exit_msg, outstanding>>

ImportReadReturn ==
    /\ UNCHANGED conv
    /\ operation = "import" /\ pc = "sent" /\ call.fn = "read_holding_regs"
    /\ \E resp \in ReadResponses(transaction_id, call.address, call.length) :
       \E buffer \in {RecvInto(rcv_buffer, resp) \o <<>>} :
            /\ rcv_buffer' = buffer
            /\ results' = ReadHoldingRegsReturn(buffer, transaction_id, call.length)
            /\ diag' = ReadDiag(buffer, transaction_id, call.length, call.verbose)
    /\ outstanding' = outstanding - 1
    /\ pc' = "loop"
    /\ UNCHANGED <<operation, verbose, regGroups, sock, transaction_id, call, request,
                   result_set, exit_msg>>

ImportWriteReturn ==
    /\ UNCHANGED conv
    /\ operation = "import" /\ pc = "sent" /\ call.fn # "read_holding_regs"
    /\ \E resp \in WriteResponses(request) :
       \E buffer \in {RecvInto(rcv_buffer, resp) \o <<>>} :
            /\ rcv_buffer' = buffer
            /\ results' = buffer
    /\ outstanding' = outstanding - 1
    /\ pc' = "loop"
    /\ UNCHANGED <<operation, verbose, regGroups, sock, transaction_id, call, request,
                   result_set, diag, exit_msg>>

\* socket.timeout reaches the caller, who may go on with the client
ImportTimeout ==
    /\ UNCHANGED conv
    /\ operation = "import" /\ pc = "sent"
    /\ outstanding' = outstanding - 1
    /\ pc' = "loop"
    /\ UNCHANGED <<operation, verbose, regGroups, sock, transaction_id, call, request,
                   rcv_buffer, results, result_set, diag, exit_msg>>

Next ==
    \/ Connect
    \/ ConnectRefused
    \/ ReadSkip
    \/ ReadInvalid
    \/ ReadSend
    \/ ReadReceive
    \/ ReadTimeout
    \/ ReadFinish
    \/ WriteSkip
    \/ WriteInvalid
    \/ WriteSend
    \/ WriteOverflow
    \/ WriteReceive
    \/ WriteTimeout
    \/ WriteFinish
    \/ ImportRead
    \/ ImportWriteSingle
    \/ ImportWriteMulti
    \/ ImportOverflow
    \/ ImportReadReturn
    \/ ImportWriteReturn
    \/ ImportTimeout

Spec == Init /\ [][Next]_vars

----------------------------------------------------------------------------
(* A caller that imports the module and calls its functions, as the tests   *)
(* of test_tinymbc.py do: one call on an argument, then possibly the other  *)
(* conversion on what the first returned.                                   *)

\* the arguments of the conversions: every int from below -32768 to above
\* 65535, and floats inside and outside the two intervals (1.5, 2.0, -0.5,
\* -1.0, 32767.5, 40000.5, 65535.5, -32768.5, 65536.5)
ConvInputs ==
    {IntNum(i) : i \in (0 - 32770)..65537}
    \cup {FloatNum(t) : t \in {3, 4, 0 - 1, 0 - 2, 65535, 80001, 131071, 0 - 65537, 131073}}

\* the arguments of modbus_exception_code_to_string: the codes around the
\* table, and negative and large codes
ExceptionCodes == ((0 - 20)..140) \cup {0 - 2147483647, 0 - 65536, 1234, 65536, 2147483647}

ConvInit ==
    /\ operation = "import"
    /\ verbose = FALSE
    /\ regGroups = <<>>
    /\ pc = "start"
    /\ sock = "none"
    /\ transaction_id = 0
    /\ call = NoCall
    /\ request = <<>>
    /\ rcv_buffer = <<>>
    /\ results = <<>>
    /\ result_set = <<>>
    /\ diag = <<>>
    /\ exit_msg = ""
    /\ outstanding = 0
    /\ conv = <<>>

\* the record of one call
Called(fn, arg, ret) == [fn |-> fn, arg |-> arg, ret |-> ret]

CallUint16ToInt16 ==
    /\ conv = <<>>
    /\ \E ui \in ConvInputs :
           conv' = <<Called("uint16_to_int16", ui, uint16_to_int16(ui))>>
    /\ UNCHANGED run_vars

CallInt16ToUint16 ==
    /\ conv = <<>>
    /\ \E i \in ConvInputs :
           conv' = <<Called("int16_to_uint16", i, int16_to_uint16(i))>>
    /\ UNCHANGED run_vars

\* int16_to_uint16(uint16_to_int16(ui))
Int16ToUint16OfReturned ==
    /\ Len(conv) = 1
    /\ conv[1].fn = "uint16_to_int16"
    /\ conv[1].ret.ok
    /\ conv' = Append(conv, Called("int16_to_uint16", conv[1].ret.val,
                                   int16_to_uint16(conv[1].ret.val)))
    /\ UNCHANGED run_vars

\* uint16_to_int16(int16_to_uint16(i))
Uint16ToInt16OfReturned ==
    /\ Len(conv) = 1
    /\ conv[1].fn = "int16_to_uint16"
    /\ conv[1].ret.ok
    /\ conv' = Append(conv, Called("uint16_to_int16", conv[1].ret.val,
                                   uint16_to_int16(conv[1].ret.val)))
    /\ UNCHANGED run_vars

CallExceptionCodeToString ==
    /\ conv = <<>>
    /\ \E exception_code \in ExceptionCodes :
           conv' = <<Called("modbus_exception_code_to_string", exception_code,
                            Returned(modbus_exception_code_to_string(exception_code)))>>
    /\ UNCHANGED run_vars

ConvNext ==
    \/ CallUint16ToInt16
    \/ CallInt16ToUint16
    \/ Int16ToUint16OfReturned
    \/ Uint16ToInt16OfReturned
    \/ CallExceptionCodeToString

ConvSpec == ConvInit /\ [][ConvNext]_vars

----------------------------------------------------------------------------
(* Properties *)

\* the decimal text of a natural number
RECURSIVE DecText(_)
DecText(n) ==
    IF n < 10 THEN <<HexLower[n + 1]>>
    ELSE Append(DecText(n \div 10), HexLower[(n % 10) + 1])

\* the decimal text of an integer
IntText(i) == IF i < 0 THEN <<"-">> \o DecText(0 - i) ELSE DecText(i)

\* the base 16 text of a natural number, with the "0x" prefix
RECURSIVE HexDigits(_)
HexDigits(n) ==
    IF n < 16 THEN <<HexUpper[n + 1]>>
    ELSE Append(HexDigits(n \div 16), HexUpper[(n % 16) + 1])

HexText(n) == <<"0", "x">> \o HexDigits(n)

\* the two-byte big-endian field of a frame that starts at byte k
Field(frame, k) == frame[k] * 256 + frame[k + 1]

\* a step that hands a frame to sock.send
SendStep == outstanding' = outstanding + 1

\* a step in which read_holding_regs receives a response
ReadResponseStep ==
    /\ pc = "sent"
    /\ call.fn = "read_holding_regs"
    /\ rcv_buffer' # rcv_buffer

(* C1 *)
\* C1: in one session the first request frame carries transaction identifier
\* 1 and every later request frame carries the identifier of the frame before
\* it plus 1, or 1 after 255; the identifier is the two-byte field at the
\* start of the frame, so it is in 1..255 and never 0.
C1_TransactionIdSequence ==
    [][SendStep =>
        Field(request', 1) =
            (IF request = <<>> THEN 1
             ELSE IF Field(request, 1) < 255 THEN Field(request, 1) + 1
             ELSE 1)]_vars

(* C2 *)
\* C2: when read_holding_regs has returned, it has returned the payload
\* decoded as call.length big-endian words if the response's two-byte
\* transaction id equals the request's, its function code is 3 and its byte
\* count is twice the quantity, and it has returned no data for every other
\* response.
C2_AcceptsIffWellFormed ==
    (call.fn = "read_holding_regs" /\ pc # "sent") =>
        IF /\ Field(rcv_buffer, 1) = Field(request, 1)
           /\ rcv_buffer[8] = 3
           /\ rcv_buffer[9] = 2 * call.length
        THEN results = [i \in 1..call.length |-> Field(rcv_buffer, 8 + 2 * i)]
        ELSE results = <<>>

(* C3 *)
\* C3 as amended: when the response to a read request carries function code
\* 131 and exception code c, read_holding_regs returns no data, nothing is
\* appended to the result set and the read operation ends with the message
\* that no results were received; the Modbus exception with the label of c
\* (for c = 2: "Illegal Data Address") is reported in verbose mode, and
\* nothing else is reported otherwise.
C3_ExceptionReportedWhenVerbose ==
    [][(ReadResponseStep /\ rcv_buffer'[8] = 131) =>
        /\ results' = <<>>
        /\ result_set' = result_set
        /\ operation = "read" => (pc' = "done" /\ exit_msg' = MsgNoResult)
        /\ call.verbose =>
              diag' = <<"Error: Modbus exception occured:",
                        modbus_exception_code_to_string(rcv_buffer'[9])>>
        /\ (call.verbose /\ rcv_buffer'[9] = 2) => diag'[2] = "Illegal Data Address"
        /\ ~call.verbose => diag' = <<>>]_vars

\* a verbose read run has ended on an exception response with code 2
C3_Witness ==
    /\ operation = "read" /\ verbose /\ pc = "done"
    /\ exit_msg = MsgNoResult
    /\ rcv_buffer # <<>> /\ rcv_buffer[8] = 131 /\ rcv_buffer[9] = 2
    /\ diag = <<"Error: Modbus exception occured:", "Illegal Data Address">>
    /\ result_set = <<>>

\* C3 as stated: whenever the response to a read request carries function
\* code 131 and exception code c, the Modbus exception with the label of c is
\* reported and nothing is appended to the result set.
C3_ExceptionReported ==
    [][(ReadResponseStep /\ rcv_buffer'[8] = 131) =>
        /\ result_set' = result_set
        /\ diag' = <<"Error: Modbus exception occured:",
                     modbus_exception_code_to_string(rcv_buffer'[9])>>]_vars

(* C4 *)
\* C4: in a read invocation, when the response for a group fails validation
\* (its two-byte transaction id differs from the request's, its function code
\* is not 3, which includes an exception response, or its byte count is not
\* twice the quantity) the invocation ends there: nothing is appended to the
\* result set and the run is over, so no later group is requested.
C4_AbortOnInvalidResponse ==
    [][(operation = "read" /\ ReadResponseStep
        /\ ~(/\ Field(rcv_buffer', 1) = Field(request, 1)
             /\ rcv_buffer'[8] = 3
             /\ rcv_buffer'[9] = 2 * call.length)) =>
        /\ pc' = "done"
        /\ result_set' = result_set]_vars

(* C5 *)
\* C5: a write invocation that has ended without a transport timeout (and
\* after the connection was made) has attempted every write group of its
\* input: at most the group that failed last is still at the head of the
\* list, and no group after it is left unattempted.
C5_EveryWriteGroupAttempted ==
    (operation = "write" /\ pc = "done" /\ exit_msg \notin {MsgTimeout, MsgRefused}) =>
        (regGroups = <<>> \/ Tail(regGroups) = <<>>)

(* C6 *)
\* C6: at most one transaction is outstanding at any time: a frame is sent
\* only when no frame is outstanding, and a receive that completes (with a
\* response or a timeout) leaves none outstanding.
C6_OneOutstanding ==
    [][/\ outstanding' > outstanding => (outstanding = 0 /\ outstanding' = 1)
       /\ outstanding' < outstanding => (outstanding = 1 /\ outstanding' = 0)]_vars

\* the second request of a read run is outstanding after the first was answered
C6_Witness ==
    /\ pc = "sent" /\ outstanding = 1
    /\ Len(result_set) = 1
    /\ Field(request, 1) = 2

(* C7 *)
\* C7: whenever an invocation that connected has reached its end (all groups
\* done, a read group failed, invalid input, or a timeout), the socket
\* acquired at connect time is closed.
C7_SocketClosedAtExit ==
    (pc = "done" /\ exit_msg # MsgRefused) => sock = "closed"

(* C8 *)
\* C8: every request frame sent has protocol id 0 and a two-byte Length field
\* equal to the number of bytes after it: 6 for function codes 3 and 6, and
\* 7 + byte count for function code 16, whose quantity field is the number n
\* of values, whose byte count is 2n and which ends with the 2n value bytes.
C8_LengthField ==
    pc = "sent" =>
        /\ Field(request, 3) = 0
        /\ Field(request, 5) = Len(request) - 6
        /\ request[8] \in {3, 6, 16}
        /\ request[8] \in {3, 6} => Field(request, 5) = 6
        /\ request[8] = 16 =>
            /\ call.fn = "write_multi_regs"
            /\ Field(request, 5) = 7 + request[13]
            /\ Field(request, 11) = Len(call.values)
            /\ request[13] = 2 * Len(call.values)
            /\ Len(request) = 13 + 2 * Len(call.values)
            /\ \A i \in 1..Len(call.values) : Field(request, 12 + 2 * i) = call.values[i]

\* the longest write-multiple-registers frame is sent: 124 values, Length 255
C8_Witness ==
    /\ pc = "sent"
    /\ request[8] = 16
    /\ Len(call.values) = 124
    /\ Field(request, 5) = 255
    /\ Len(request) = 261

(* C9 *)
\* the addresses whose tokens the property ranges over
C9_Addresses == {0, 1, 2, 3, 5, 7, 10, 125, 126}

\* a request for length registers from start is the step's outcome
C9_Requested(start, length) ==
    /\ SendStep
    /\ call'.fn = "read_holding_regs"
    /\ Field(request', 9) = start
    /\ Field(request', 11) = length

\* C9: in a read invocation the token of a single address a leads to a
\* request for 1 register from a; the token "a-b" leads to a request for
\* |a - b| + 1 registers from min(a, b) whatever the order of a and b; and
\* when that length is above 125 the invocation fails on invalid input and
\* no request is sent.
C9_ReadGroupToken ==
    [][(operation = "read" /\ pc = "loop" /\ regGroups # <<>>) =>
        \A a, b \in C9_Addresses :
            /\ Head(regGroups) = DecText(a) => C9_Requested(a, 1)
            /\ Head(regGroups) = DecText(a) \o <<"-">> \o DecText(b) =>
                 IF (IF a < b THEN b - a ELSE a - b) + 1 > 125
                 THEN /\ pc' = "done" /\ exit_msg' = MsgInvalid
                      /\ ~SendStep /\ request' = request
                 ELSE C9_Requested(IF a < b THEN a ELSE b,
                                   (IF a < b THEN b - a ELSE a - b) + 1)]_vars

\* the request for the group "10-3" is outstanding: 8 registers from 3
C9_Witness ==
    /\ operation = "read" /\ pc = "sent"
    /\ Head(regGroups) = <<"1", "0", "-", "3">>
    /\ call.address = 3 /\ call.length = 8
    /\ Field(request, 9) = 3 /\ Field(request, 11) = 8

(* C10 *)
\* the integers whose texts the property ranges over
C10_Values == {-32769, -32768, -1, 0, 42, 65535, 65536}

\* C10: a write group "17=v" whose value text v denotes the integer i, in
\* base 10 or (for i >= 0) in base 16 behind "0x", leads to a request that
\* carries i when i is in 0..65535 and i + 65536 when i is in -32768..-1,
\* and to a range error without a request otherwise.
C10_ParseValue ==
    [][(operation = "write" /\ pc = "loop" /\ regGroups # <<>>) =>
        \A i \in C10_Values :
            (\/ Head(regGroups) = <<"1", "7", "=">> \o IntText(i)
             \/ (i >= 0 /\ Head(regGroups) = <<"1", "7", "=">> \o HexText(i))) =>
                IF i \in -32768..65535
                THEN /\ SendStep
                     /\ call'.values = <<IF i < 0 THEN i + 65536 ELSE i>>
                     /\ Field(request', 11) = (IF i < 0 THEN i + 65536 ELSE i)
                ELSE /\ pc' = "done" /\ exit_msg' = MsgWrite
                     /\ ~SendStep]_vars

(* C11 *)
\* C11: for every integer u in 0..65535, uint16_to_int16(u) is u when
\* u <= 32767 and u - 65536 otherwise, and int16_to_uint16 of that result
\* is u again.
C11_RoundTripUnsigned ==
    (/\ conv # <<>>
     /\ conv[1].fn = "uint16_to_int16"
     /\ conv[1].arg.isint
     /\ conv[1].arg.twice \in 0..(2 * 65535)) =>
        /\ conv[1].ret.ok
        /\ conv[1].ret.val =
              IntNum(IF conv[1].arg.twice \div 2 <= 32767
                     THEN conv[1].arg.twice \div 2
                     ELSE (conv[1].arg.twice \div 2) - 65536)
        /\ Len(conv) = 2 =>
              /\ conv[2].fn = "int16_to_uint16"
              /\ conv[2].ret.ok
              /\ conv[2].ret.val = conv[1].arg

\* 65535 went to -1 and came back
C11_Witness ==
    /\ Len(conv) = 2
    /\ conv[1].fn = "uint16_to_int16"
    /\ conv[1].arg = IntNum(65535)
    /\ conv[2].arg = IntNum(0 - 1)
    /\ conv[2].ret.ok
    /\ conv[2].ret.val = IntNum(65535)

(* C12 *)
\* C12: for every integer i in -32768..32767, int16_to_uint16(i) is i when
\* i >= 0 and i + 65536 otherwise, and uint16_to_int16 of that result is i
\* again.
C12_RoundTripSigned ==
    (/\ conv # <<>>
     /\ conv[1].fn = "int16_to_uint16"
     /\ conv[1].arg.isint
     /\ conv[1].arg.twice \in (0 - 2 * 32768)..(2 * 32767)) =>
        /\ conv[1].ret.ok
        /\ conv[1].ret.val =
              IntNum(IF conv[1].arg.twice >= 0
                     THEN conv[1].arg.twice \div 2
                     ELSE (conv[1].arg.twice \div 2) + 65536)
        /\ Len(conv) = 2 =>
              /\ conv[2].fn = "uint16_to_int16"
              /\ conv[2].ret.ok
              /\ conv[2].ret.val = conv[1].arg

\* -32768 went to 32768 and came back
C12_Witness ==
    /\ Len(conv) = 2
    /\ conv[1].fn = "int16_to_uint16"
    /\ conv[1].arg = IntNum(0 - 32768)
    /\ conv[2].arg = IntNum(32768)
    /\ conv[2].ret.ok
    /\ conv[2].ret.val = IntNum(0 - 32768)

(* C13 *)
\* the number n is an integer between lo and hi (a float with an integral
\* value counts as one)
C13_IntegerIn(n, lo, hi) == n.twice % 2 = 0 /\ n.twice \in (2 * lo)..(2 * hi)

\* C13: uint16_to_int16 raises the range error for every number that is not
\* an integer in 0..65535, and int16_to_uint16 for every number that is not
\* an integer in -32768..32767, numbers such as 1.5 inside the interval
\* included.
C13_RangeErrors ==
    /\ (conv # <<>> /\ conv[1].fn = "uint16_to_int16"
        /\ ~C13_IntegerIn(conv[1].arg, 0, 65535)) => ~conv[1].ret.ok
    /\ (conv # <<>> /\ conv[1].fn = "int16_to_uint16"
        /\ ~C13_IntegerIn(conv[1].arg, 0 - 32768, 32767)) => ~conv[1].ret.ok

(* C14 *)
\* the labels of the Modbus exception codes
C14_Labels ==
    (1 :> "Illegal Function Code") @@ (2 :> "Illegal Data Address")
    @@ (3 :> "Illegal Data Value") @@ (4 :> "Server Failure")
    @@ (5 :> "Acknowledge") @@ (6 :> "Server Busy")
    @@ (10 :> "Gateway Problem (0x0A)") @@ (11 :> "Gateway Problem (0x0B)")

\* C14: modbus_exception_code_to_string returns, for every integer code and
\* without an error, the fixed label of a code in {1, 2, 3, 4, 5, 6, 10, 11}
\* and "Unknown exception code" for every other code, 0, negative and large
\* codes included.
C14_LabelTotal ==
    (conv # <<>> /\ conv[1].fn = "modbus_exception_code_to_string") =>
        /\ conv[1].ret.ok
        /\ conv[1].ret.val =
              (IF conv[1].arg \in DOMAIN C14_Labels THEN C14_Labels[conv[1].arg]
               ELSE "Unknown exception code")

\* code 10 was given its label
C14_Witness ==
    /\ conv # <<>>
    /\ conv[1].fn = "modbus_exception_code_to_string"
    /\ conv[1].arg = 10
    /\ conv[1].ret.val = "Gateway Problem (0x0A)"

(* C15 *)
\* C15: in a read invocation a group whose address text is malformed ("x")
\* or outside 0..65535 ("70000") is skipped: no request is sent for it, the
\* run goes on and the groups after it are the next to be requested.
C15_InvalidAddressSkipped ==
    [][(/\ operation = "read" /\ pc = "loop" /\ regGroups # <<>>
        /\ Head(regGroups) \in {DecText(70000), <<"x">>}) =>
            /\ ~SendStep
            /\ pc' = "loop"
            /\ exit_msg' = exit_msg
            /\ regGroups' = Tail(regGroups)]_vars

(* C16 *)
\* C16: in a write invocation, when the response's transaction id or
\* function code does not match the request's (an exception response with
\* function code + 128 included), the mismatch is reported, and the run goes
\* on with the next write group.
C16_WriteMismatchReported ==
    [][(/\ operation = "write" /\ pc = "sent"
        /\ rcv_buffer' # rcv_buffer
        /\ (Field(rcv_buffer', 1) # Field(request, 1) \/ rcv_buffer'[8] # request[8])) =>
            /\ diag' # <<>>
            /\ pc' = "loop"
            /\ regGroups' = Tail(regGroups)]_vars

(* C17 *)
\* C17: when no response arrives for a request of a read or write
\* invocation, the invocation ends with the timeout message: the result set
\* and the list of groups stay as they were, and an invocation that has
\* ended takes no further step, so no request is sent for a remaining group.
C17_TimeoutIsFatal ==
    [][/\ (/\ operation \in {"read", "write"} /\ pc = "sent"
           /\ outstanding' < outstanding
           /\ rcv_buffer' = rcv_buffer) =>
              /\ pc' = "done"
              /\ exit_msg' = MsgTimeout
              /\ result_set' = result_set
              /\ regGroups' = regGroups
       /\ pc # "done"]_vars

\* a read run timed out on its second group: one entry, one group left
C17_Witness ==
    /\ operation = "read" /\ pc = "done"
    /\ exit_msg = MsgTimeout
    /\ Len(result_set) = 1
    /\ Len(regGroups) = 1
    /\ Field(request, 1) = 2
    /\ outstanding = 0

(* C18 *)
\* C18: in a read invocation the result set changes only when a response is
\* accepted, and then by one entry (start, length, values) appended at its
\* end for the group requested, the values being the response's words; it
\* holds one entry per request answered and accepted so far, and in every
\* entry the number of values is the length.
C18_ResultSet ==
    [][operation = "read" =>
        /\ result_set' # result_set =>
              /\ pc = "sent" /\ pc' = "loop"
              /\ regGroups' = Tail(regGroups)
              /\ result_set' =
                    Append(result_set,
                           [start   |-> Field(request, 9),
                            length  |-> Field(request, 11),
                            results |-> [i \in 1..Field(request, 11) |->
                                            Field(rcv_buffer', 8 + 2 * i)]])
        /\ (pc = "sent" /\ pc' = "loop") => Len(result_set') = Len(result_set) + 1
        /\ Len(result_set') = transaction_id' - outstanding'
                              - (IF exit_msg' \in {MsgTimeout, MsgNoResult} THEN 1 ELSE 0)
        /\ \A i \in 1..Len(result_set') :
              Len(result_set'[i].results) = result_set'[i].length]_vars

\* the group "0-2" was answered by the registers 0, 1234, 65535
C18_Witness ==
    /\ operation = "read"
    /\ result_set = <<[start |-> 0, length |-> 3, results |-> <<0, 1234, 65535>>]>>
    /\ regGroups = <<>>
    /\ pc = "done" /\ exit_msg = MsgDone

(* C19 *)
\* the text of a list of values, separated by ";"
RECURSIVE C19_ValuesText(_)
C19_ValuesText(values) ==
    IF Len(values) = 1 THEN IntText(values[1])
    ELSE IntText(values[1]) \o <<";">> \o C19_ValuesText(Tail(values))

\* write groups of the shape address=values, all addresses and values valid
C19_Groups ==
    {[address |-> 17, values |-> <<42>>],
     [address |-> 17, values |-> <<0 - 1>>],
     [address |-> 3,  values |-> <<1, 2>>],
     [address |-> 0,  values |-> [k \in 1..124 |-> 7]],
     [address |-> 0,  values |-> [k \in 1..125 |-> 7]]}

\* C19: in a write invocation a token address=values leads to exactly one
\* request, for that address and with the values in their order (a negative
\* value as its unsigned counterpart): with function code 6 for one value and
\* function code 16 for two or more; a token without "=" is skipped, the run
\* goes on and no request is sent for it.
C19_WriteGroupToken ==
    [][(operation = "write" /\ pc = "loop" /\ regGroups # <<>>) =>
        /\ \A g \in C19_Groups :
              Head(regGroups) = DecText(g.address) \o <<"=">> \o C19_ValuesText(g.values) =>
                 /\ SendStep
                 /\ Field(request', 9) = g.address
                 /\ request'[8] = (IF Len(g.values) = 1 THEN 6 ELSE 16)
                 /\ call'.values = [k \in 1..Len(g.values) |->
                                       IF g.values[k] < 0 THEN g.values[k] + 65536
                                       ELSE g.values[k]]
        /\ Head(regGroups) = DecText(17) =>
              /\ ~SendStep
              /\ pc' = "loop"
              /\ regGroups' = Tail(regGroups)]_vars

(* C20 *)
\* C20: the transaction counter changes only in a step that sends a request
\* frame, and every such step advances it by one (to 1 after 255); a step
\* that skips or rejects a group leaves it as it is.
C20_CounterFollowsFrames ==
    [][/\ transaction_id' # transaction_id => SendStep
       /\ SendStep => transaction_id' = (IF transaction_id < 255 THEN transaction_id + 1 ELSE 1)]_vars

(* C21 *)
\* C21: every request a read invocation sends carries a start address in
\* 0..65535 and a quantity in 1..125, and the last register asked for,
\* start + quantity - 1, is at most 65535; the frame's two fields hold
\* these two numbers.
C21_ReadWithinAddressSpace ==
    (operation = "read" /\ pc = "sent") =>
        /\ call.address \in 0..65535
        /\ call.length \in 1..125
        /\ call.address + call.length - 1 <= 65535
        /\ \A k \in 1..Len(request) : request[k] \in 0..255
        /\ Field(request, 9) = call.address
        /\ Field(request, 11) = call.length

\* the request for "65535-65530" is outstanding: 6 registers up to the last
C21_Witness ==
    /\ operation = "read" /\ pc = "sent"
    /\ Head(regGroups) = DecText(65535) \o <<"-">> \o DecText(65530)
    /\ Field(request, 9) = 65530
    /\ Field(request, 11) = 6

====
